---- MODULE Spec2Model ----
(***************************************************************************)
(* A model of src/main.py: the announcement poller that flattens an        *)
(* article body into lines, pairs every "(UTC)" time line with the first   *)
(* following line that names USDT pairs, filters the facts against the     *)
(* persisted seen set, notifies once and then records the keys.            *)
(*                                                                         *)
(* Text is modelled by tokens.  A raw string is a sequence of tokens; a    *)
(* token is a word (a maximal run of alphanumeric characters, kept as a    *)
(* sequence of one-character strings), a run of whitespace, a date         *)
(* "YYYY-MM-DD", a time "HH:MM" or the literal "(UTC)".  A normalised line *)
(* is a raw string without its whitespace tokens: consecutive tokens of a  *)
(* line are separated by exactly one space.                                *)
(*                                                                         *)
(* Line 153 of the source lost its colon to a comment; the model reads the *)
(* statement as the `if` it evidently is.                                  *)
(***************************************************************************)
EXTENDS Integers, Sequences, FiniteSets, TLC

VARIABLES
    lines,          \* parse_pair_times_from_lines: the argument `lines`
    lookahead,      \* parse_pair_times_from_lines: the argument max_follow_lines
    emitted,        \* parse_pair_times_from_lines: `results`, each entry with the
                    \* marker line i and the line j it was appended for
    rows,           \* parse_pair_times_from_lines: the returned list
    xpc,            \* "input", "returned" or "raised"
    \* the world of a run
    file,           \* the file at STATE_PATH
    tmp,            \* the file at STATE_PATH + ".tmp"
    catalog,        \* what the catalog endpoint serves
    bodies,         \* what the detail endpoint serves, per article code
    \* main
    pc,             \* "idle", "loop", "save", "done" or "fatal"
    seen,           \* main: `seen`
    matched,        \* main: `matched`
    idx,            \* main: the position of `for it in matched` (1-based)
    all_new_keys,   \* main: `all_new_keys`
    push_payloads,  \* main: `push_payloads`
    status,         \* what the run printed
    err,            \* the call whose exception ended the run
    \* history
    file0,          \* the state file as the run found it
    notifyCalls,    \* calls of send_discord in this run
    writes,         \* replacements of the state file in this run
    delivered,      \* keys of the facts in the notifications that were delivered
    prevFailed,     \* keys in the notification of the previous run, if it failed
    prevSaved       \* the previous run delivered and saved

xvars == <<lines, lookahead, emitted, rows, xpc>>

wvars == <<file, tmp, catalog, bodies>>

mvars == <<pc, seen, matched, idx, all_new_keys, push_payloads, status, err>>

hvars == <<file0, notifyCalls, writes, delivered, prevFailed, prevSaved>>

rvars == <<wvars, mvars, hvars>>

vars == <<xvars, rvars>>

----------------------------------------------------------------------------
(* Characters and words *)

LowerCase == <<"a","b","c","d","e","f","g","h","i","j","k","l","m",
               "n","o","p","q","r","s","t","u","v","w","x","y","z">>

UpperCase == <<"A","B","C","D","E","F","G","H","I","J","K","L","M",
               "N","O","P","Q","R","S","T","U","V","W","X","Y","Z">>

Digits == {"0","1","2","3","4","5","6","7","8","9"}

Range(s) == {s[i] : i \in DOMAIN s}

\* str.upper() on one character
UpperChar(c) ==
    IF \E i \in DOMAIN LowerCase : LowerCase[i] = c
    THEN UpperCase[CHOOSE i \in DOMAIN LowerCase : LowerCase[i] = c]
    ELSE c

\* str.upper() on a word
upper(w) == [i \in DOMAIN w |-> UpperChar(w[i])]

Word(cs) == [k |-> "w", cs |-> cs]
WS == [k |-> "ws"]
DateTok(y, m, d) == [k |-> "date", y |-> y, m |-> m, d |-> d]
TimeTok(h, mi) == [k |-> "time", h |-> h, mi |-> mi]
UtcTok == [k |-> "utc"]

----------------------------------------------------------------------------
(* The two patterns *)

USDT == <<"U","S","D","T">>

\* The character class [A-Z0-9] of PAIR_RE (compiled without IGNORECASE)
PairClass == Range(UpperCase) \cup Digits

\* PAIR_RE on one word: \b and \b pin the match to the whole word, which is
\* 2..15 characters of the class followed by USDT.
PairWordMatches(cs) ==
    /\ Len(cs) >= 2 + Len(USDT)
    /\ Len(cs) <= 15 + Len(USDT)
    /\ SubSeq(cs, Len(cs) - Len(USDT) + 1, Len(cs)) = USDT
    /\ \A i \in 1..(Len(cs) - Len(USDT)) : cs[i] \in PairClass

\* PAIR_RE.findall(line): the matching words of the line, in order
RECURSIVE PAIR_RE_findall(_)
PAIR_RE_findall(ln) ==
    IF ln = <<>> THEN <<>>
    ELSE LET t == Head(ln)
             rest == PAIR_RE_findall(Tail(ln))
         IN IF t.k = "w" /\ PairWordMatches(t.cs) THEN <<t.cs>> \o rest ELSE rest

\* TIME_LINE_RE.match(line): the whole line is date, time, "(UTC)" (any case,
\* optional colon) with a year 20xx; two-digit fields are not range-checked.
TIME_LINE_RE_match(ln) ==
    /\ Len(ln) = 3
    /\ ln[1].k = "date" /\ ln[1].y \in 2000..2099
    /\ ln[1].m \in 0..99 /\ ln[1].d \in 0..99
    /\ ln[2].k = "time" /\ ln[2].h \in 0..99 /\ ln[2].mi \in 0..99
    /\ ln[3].k = "utc"

----------------------------------------------------------------------------
(* Time *)

IsLeap(y) == (y % 4 = 0 /\ y % 100 # 0) \/ y % 400 = 0

DaysInMonth(y, m) ==
    IF m = 2 THEN (IF IsLeap(y) THEN 29 ELSE 28)
    ELSE IF m \in {4, 6, 9, 11} THEN 30 ELSE 31

\* Any two digits taken for a day, a month, an hour, a minute
strptime_ok_any_digits(dt, tm) ==
    /\ dt.m \in 0..99
    /\ dt.d \in 0..99
    /\ tm.h \in 0..99
    /\ tm.mi \in 0..99

\* datetime.strptime(..., "%Y-%m-%d %H:%M") accepts exactly the calendar values
strptime_ok(dt, tm) ==
    /\ dt.m \in 1..12
    /\ dt.d \in 1..DaysInMonth(dt.y, dt.m)
    /\ tm.h \in 0..23
    /\ tm.mi \in 0..59

\* The offset of ZoneInfo("Asia/Taipei") for every year the pattern admits
TaipeiOffsetHours == 8

\* f"{d} {t} UTC": the matched text of the two groups, unchanged
utc_str(dt, tm) == [y |-> dt.y, m |-> dt.m, d |-> dt.d, h |-> tm.h, mi |-> tm.mi]

\* The shift with the day carried inside the month only
utc_to_taipei_no_rollover(dt, tm) ==
    LET hh == tm.h + TaipeiOffsetHours
    IN [y |-> dt.y,
        m |-> dt.m,
        d |-> IF hh >= 24 THEN dt.d + 1 ELSE dt.d,
        h |-> hh % 24,
        mi |-> tm.mi]

\* utc_to_taipei for a value strptime accepts: shift by the zone's offset and
\* carry into day, month and year; rendered "%Y-%m-%d %H:%M (Asia/Taipei)".
utc_to_taipei(dt, tm) ==
    LET hh == tm.h + TaipeiOffsetHours
        carry == hh >= 24
        lastDay == dt.d = DaysInMonth(dt.y, dt.m)
        lastMonth == dt.m = 12
    IN [y |-> IF carry /\ lastDay /\ lastMonth THEN dt.y + 1 ELSE dt.y,
        m |-> IF carry /\ lastDay THEN (IF lastMonth THEN 1 ELSE dt.m + 1) ELSE dt.m,
        d |-> IF carry THEN (IF lastDay THEN 1 ELSE dt.d + 1) ELSE dt.d,
        h |-> hh % 24,
        mi |-> tm.mi]

----------------------------------------------------------------------------
(* parse_pair_times_from_lines.  Line numbers are 1-based here: the marker  *)
(* at Python index i is line i+1, and range(i+1, min(len, i+1+n)) is the    *)
(* lines I+1 .. min(len, I+n) for I = i+1.                                  *)

RECURSIVE FactsOf(_, _, _, _, _)
FactsOf(pairs, u, tw, i, j) ==
    IF pairs = <<>> THEN <<>>
    ELSE <<[pair |-> upper(Head(pairs)), utc |-> u, taipei |-> tw, i |-> i, j |-> j]>>
         \o FactsOf(Tail(pairs), u, tw, i, j)

\* A window one line too long
WindowEndOffByOne(lns, i, n) == IF Len(lns) < i + n + 1 THEN Len(lns) ELSE i + n + 1

\* The upper end of the inner range
WindowEnd(lns, i, n) == IF Len(lns) < i + n THEN Len(lns) ELSE i + n

\* The inner loop ended by the next marker line
RECURSIVE ScanWindowStopsAtMarker(_, _, _, _, _, _)
ScanWindowStopsAtMarker(lns, i, j, hi, u, tw) ==
    IF j > hi \/ TIME_LINE_RE_match(lns[j]) THEN <<>>
    ELSE LET pairs == PAIR_RE_findall(lns[j])
         IN IF pairs # <<>> THEN FactsOf(pairs, u, tw, i, j)
            ELSE ScanWindowStopsAtMarker(lns, i, j + 1, hi, u, tw)

\* The inner loop without its break
RECURSIVE ScanWindowNoBreak(_, _, _, _, _, _)
ScanWindowNoBreak(lns, i, j, hi, u, tw) ==
    IF j > hi THEN <<>>
    ELSE FactsOf(PAIR_RE_findall(lns[j]), u, tw, i, j)
         \o ScanWindowNoBreak(lns, i, j + 1, hi, u, tw)

\* The inner loop from line j on: the first line with a match appends its
\* facts and breaks.
RECURSIVE ScanWindow(_, _, _, _, _, _)
ScanWindow(lns, i, j, hi, u, tw) ==
    IF j > hi THEN <<>>
    ELSE LET pairs == PAIR_RE_findall(lns[j])
         IN IF pairs # <<>> THEN FactsOf(pairs, u, tw, i, j)
            ELSE ScanWindow(lns, i, j + 1, hi, u, tw)

\* The outer loop from line i on; acc is `results` so far.  A marker that
\* strptime rejects raises ValueError out of the function.
RECURSIVE ScanLines(_, _, _, _)
ScanLines(lns, n, i, acc) ==
    IF i > Len(lns) THEN [ok |-> TRUE, results |-> acc]
    ELSE IF ~TIME_LINE_RE_match(lns[i]) THEN ScanLines(lns, n, i + 1, acc)
    ELSE LET dt == lns[i][1]
             tm == lns[i][2]
         IN IF ~strptime_ok(dt, tm) THEN [ok |-> FALSE, results |-> <<>>]
            ELSE ScanLines(lns, n, i + 1,
                     acc \o ScanWindow(lns, i, i + 1, WindowEnd(lns, i, n),
                                       utc_str(dt, tm), utc_to_taipei(dt, tm)))

\* The dictionary entry of a result: the row the caller sees
Row(r) == [pair |-> r.pair, utc |-> r.utc, taipei |-> r.taipei]

\* The results returned as they are
UniqNoDedup(rs, acc) == acc \o rs

\* uniq[(pair, utc)] = r over `results`, then list(uniq.values()): a key keeps
\* the position of its first entry and the value of its last.
RECURSIVE Uniq(_, _)
Uniq(rs, acc) ==
    IF rs = <<>> THEN acc
    ELSE LET r == Head(rs)
             hit == {p \in DOMAIN acc : acc[p].pair = r.pair /\ acc[p].utc = r.utc}
         IN IF hit = {} THEN Uniq(Tail(rs), Append(acc, r))
            ELSE Uniq(Tail(rs), [p \in DOMAIN acc |-> IF p \in hit THEN r ELSE acc[p]])

\* The whole function: ok = FALSE when it raises.
parse_pair_times_from_lines(lns, n) ==
    LET scan == ScanLines(lns, n, 1, <<>>)
    IN [ok |-> scan.ok,
        emitted |-> scan.results,
        rows |-> IF scan.ok THEN Uniq([p \in DOMAIN scan.results |-> Row(scan.results[p])], <<>>)
                 ELSE <<>>]

----------------------------------------------------------------------------
(* The JSON tree of a body and its flattening *)

JStr(raw) == [t |-> "str", s |-> raw]
JNum == [t |-> "num"]
JNull == [t |-> "null"]
JList(items) == [t |-> "list", items |-> items]
\* a dictionary is its entries in insertion order
JDict(items) == [t |-> "dict", items |-> items]
Entry(key, val) == [key |-> key, val |-> val]

\* isinstance(obj.get("content"), str)
HasStrContent(obj) ==
    \E p \in DOMAIN obj.items : obj.items[p].key = "content" /\ obj.items[p].val.t = "str"

ContentOf(obj) ==
    obj.items[CHOOSE p \in DOMAIN obj.items : obj.items[p].key = "content"].val.s

\* walk_text(obj, out): what it appends to out
RECURSIVE walk_text(_)
RECURSIVE walk_values(_, _)
walk_values(items, isDict) ==
    IF items = <<>> THEN <<>>
    ELSE walk_text(IF isDict THEN Head(items).val ELSE Head(items))
         \o walk_values(Tail(items), isDict)

\* The content appended after the loop over the values
walk_text_content_last(obj) ==
    IF obj.t = "dict"
    THEN walk_values(obj.items, TRUE)
         \o (IF HasStrContent(obj) THEN <<ContentOf(obj)>> ELSE <<>>)
    ELSE IF obj.t = "list" THEN walk_values(obj.items, FALSE)
    ELSE <<>>

walk_text(obj) ==
    IF obj.t = "dict"
    THEN (IF HasStrContent(obj) THEN <<ContentOf(obj)>> ELSE <<>>)
         \o walk_values(obj.items, TRUE)
    ELSE IF obj.t = "list" THEN walk_values(obj.items, FALSE)
    ELSE <<>>

IsText(tok) == tok.k # "ws"

\* re.sub(r"\s+", " ", p).strip(): the tokens of p, one space apart
Normalise(raw) == SelectSeq(raw, IsText)

\* the loop over parts: normalise, keep what is not empty
RECURSIVE KeepLines(_)
KeepLines(parts) ==
    IF parts = <<>> THEN <<>>
    ELSE LET ln == Normalise(Head(parts))
         IN (IF ln # <<>> THEN <<ln>> ELSE <<>>) \o KeepLines(Tail(parts))

\* extract_lines_from_content_json on a string that json.loads accepts as j
extract_lines_from_content_json(j) == KeepLines(walk_text(j))

----------------------------------------------------------------------------
(* Keys, links and messages *)

\* f"{code}|{pair}|{utc}": codes, pairs and times hold no "|", so the string
\* determines the three parts and is kept as the triple.
make_key(code, pair, utc) == <<code, pair, utc>>

\* build_link(code): the announcement URL of the code, None without a code
build_link(code) == IF code # "" THEN [url |-> "detail", code |-> code] ELSE [url |-> "None", code |-> ""]

\* The order of the characters of a pair as Python compares them
CharOrder == <<"0","1","2","3","4","5","6","7","8","9">> \o UpperCase \o LowerCase

Ord(c) == CHOOSE i \in DOMAIN CharOrder : CharOrder[i] = c

RECURSIVE StrLess(_, _)
StrLess(a, b) ==
    IF b = <<>> THEN FALSE
    ELSE IF a = <<>> THEN TRUE
    ELSE IF Ord(Head(a)) # Ord(Head(b)) THEN Ord(Head(a)) < Ord(Head(b))
    ELSE StrLess(Tail(a), Tail(b))

\* "YYYY-MM-DD HH:MM UTC" compared as text: the fields are of fixed width
UtcLess(a, b) ==
    LET ka == <<a.y, a.m, a.d, a.h, a.mi>>
        kb == <<b.y, b.m, b.d, b.h, b.mi>>
    IN \E p \in 1..5 : ka[p] < kb[p] /\ \A q \in 1..(p - 1) : ka[q] = kb[q]

\* (x["utc"], x["pair"]) < (y["utc"], y["pair"])
RowLess(x, y) == UtcLess(x.utc, y.utc) \/ (x.utc = y.utc /\ StrLess(x.pair, y.pair))

RECURSIVE InsertRow(_, _)
InsertRow(r, sorted) ==
    IF sorted = <<>> THEN <<r>>
    ELSE IF RowLess(r, Head(sorted)) THEN <<r>> \o sorted
    ELSE <<Head(sorted)>> \o InsertRow(r, Tail(sorted))

\* sorted(new_rows, key=...): stable, so equal keys keep their order
RECURSIVE SortRows(_)
SortRows(rs) ==
    IF rs = <<>> THEN <<>>
    ELSE InsertRow(rs[Len(rs)], SortRows(SubSeq(rs, 1, Len(rs) - 1)))

\* format_message: the title line, the link line, one line per row
format_message(title, link, new_rows) ==
    [title |-> title, link |-> link, rows |-> SortRows(new_rows)]

\* The keys of the facts that a notification content shows
ContentKeys(content) ==
    UNION {{make_key(content[p].link.code, content[p].rows[q].pair, content[p].rows[q].utc)
               : q \in DOMAIN content[p].rows} : p \in DOMAIN content}

----------------------------------------------------------------------------
(* The state file *)

MissingFile == [kind |-> "missing", seen |-> {}]
CorruptFile == [kind |-> "corrupt", seen |-> {}]
\* a file opened for writing and not written to its end: json.dump closes the
\* object last, so what is there does not parse
PartialFile == [kind |-> "partial", seen |-> {}]
\* {"seen": [...]}: the list is kept as the set of its entries, which is what
\* main reads from it and what sorted(seen) writes.
StateFile(keys) == [kind |-> "valid", seen |-> keys]

\* load_state: the parsed file, {"seen": []} when it is missing or unreadable
load_state(f) == IF f.kind = "valid" THEN [seen |-> f.seen] ELSE [seen |-> {}]

----------------------------------------------------------------------------
(* Inputs of the extraction *)

MaxLines == 4
MaxLookahead == 2

\* The default of max_follow_lines, which main passes explicitly too
DefaultLookahead == 10

W_BTCUSDT == <<"B","T","C","U","S","D","T">>
W_ETHUSDT == <<"E","T","H","U","S","D","T">>
W_ADAUSDT == <<"A","D","A","U","S","D","T">>
W_btcusdt == <<"b","t","c","u","s","d","t">>
W_and == <<"a","n","d">>
W_intro == <<"i","n","t","r","o">>
W_on == <<"o","n">>

MarkerLine(y, m, d, h, mi) == <<DateTok(y, m, d), TimeTok(h, mi), UtcTok>>

L_T1 == MarkerLine(2024, 3, 1, 8, 0)
L_T2 == MarkerLine(2024, 12, 31, 16, 30)
L_TBad == MarkerLine(2024, 2, 30, 8, 0)
L_Embedded == <<Word(W_on)>> \o L_T1 \o <<Word(W_intro)>>
L_Intro == <<Word(W_intro)>>
L_BtcEth == <<Word(W_BTCUSDT), Word(W_and), Word(W_ETHUSDT)>>
L_Ada == <<Word(W_ADAUSDT), Word(W_intro)>>
L_Lower == <<Word(W_btcusdt), Word(W_intro)>>

LineAlphabet == {L_T1, L_T2, L_TBad, L_Embedded, L_Intro, L_BtcEth, L_Ada, L_Lower}

LineSeqs == UNION {[1..n -> LineAlphabet] : n \in 0..MaxLines}

Lookaheads == (0..MaxLookahead) \cup {DefaultLookahead}

----------------------------------------------------------------------------
(* The extraction on its own: one call of parse_pair_times_from_lines *)

\* No run is going on while the extraction is examined on its own
NoRun ==
    /\ file = MissingFile /\ tmp = MissingFile /\ catalog = <<>> /\ bodies = <<>>
    /\ pc = "idle" /\ seen = {} /\ matched = <<>> /\ idx = 1
    /\ all_new_keys = <<>> /\ push_payloads = <<>> /\ status = "" /\ err = ""
    /\ file0 = MissingFile /\ notifyCalls = 0 /\ writes = 0
    /\ delivered = {} /\ prevFailed = {} /\ prevSaved = FALSE

ExtractInit ==
    /\ lines \in LineSeqs
    /\ lookahead \in Lookaheads
    /\ emitted = <<>>
    /\ rows = <<>>
    /\ xpc = "input"
    /\ NoRun

ExtractReturns ==
    /\ xpc = "input"
    /\ LET res == parse_pair_times_from_lines(lines, lookahead)
       IN /\ res.ok
          /\ emitted' = res.emitted
          /\ rows' = res.rows
    /\ xpc' = "returned"
    /\ UNCHANGED <<lines, lookahead, rvars>>

ExtractRaises ==
    /\ xpc = "input"
    /\ ~parse_pair_times_from_lines(lines, lookahead).ok
    /\ xpc' = "raised"
    /\ UNCHANGED <<lines, lookahead, emitted, rows, rvars>>

ExtractNext == ExtractReturns \/ ExtractRaises

SpecExtract == ExtractInit /\ [][ExtractNext]_vars

----------------------------------------------------------------------------
(* The world of a run *)

MaxCatalog == 2

\* main keeps at most this many matched articles
MaxMatched == 3

Codes == {"a", "b"}

T_Futures == <<"Binance", "Futures", "Will", "Launch">>
T_Spot == <<"Binance", "Will", "List">>

Article(code, title) == [code |-> code, title |-> title]

\* an article without a code has code ""
ArticleKinds ==
    {Article("a", T_Futures), Article("b", T_Futures), Article("a", T_Spot),
     Article("", T_Futures)}

Catalogs == UNION {[1..n -> ArticleKinds] : n \in 0..MaxCatalog}

Raw(ln) ==
    IF ln = <<>> THEN <<WS>>
    ELSE [p \in 1..(2 * Len(ln) - 1) |-> IF p % 2 = 1 THEN ln[(p + 1) \div 2] ELSE WS]

Block(ln) == JDict(<<Entry("type", JStr(<<Word(W_intro)>>)), Entry("content", JStr(Raw(ln)))>>)

Doc(head, rest) ==
    JDict(<<Entry("content", JStr(Raw(head))),
            Entry("version", JNum),
            Entry("children", JList([p \in DOMAIN rest |-> Block(rest[p])]))>>)

\* data of the detail endpoint: contentJson is absent, or text that parses
Detail(tree) == [contentJson |-> "text", tree |-> tree]
NoBody == [contentJson |-> "", tree |-> JNull]

D_Two == Detail(Doc(L_T1, <<L_Intro, <<>>, L_BtcEth, L_Ada>>))
D_One == Detail(Doc(L_Intro, <<L_T2, L_Ada>>))
D_Bad == Detail(Doc(L_TBad, <<L_Ada>>))

Details == {D_Two, D_One, D_Bad, NoBody}

K_Old == make_key("z", W_ADAUSDT, utc_str(DateTok(2023, 1, 1), TimeTok(0, 0)))
K_aBtc == make_key("a", W_BTCUSDT, utc_str(DateTok(2024, 3, 1), TimeTok(8, 0)))

\* what an earlier run may have left in the state file
InitialFiles == {MissingFile, CorruptFile, StateFile({}), StateFile({K_Old, K_aBtc})}

----------------------------------------------------------------------------
(* main *)

ContainsFutures(title) == \E p \in DOMAIN title : title[p] = "Futures"

\* The loop without the cap on matched
RECURSIVE MatchLoopNoCap(_, _)
MatchLoopNoCap(articles, acc) ==
    IF articles = <<>> THEN acc
    ELSE LET it == Head(articles)
             acc2 == IF it.code # "" /\ ContainsFutures(it.title) THEN Append(acc, it) ELSE acc
         IN MatchLoopNoCap(Tail(articles), acc2)

\* the loop that fills `matched`
RECURSIVE MatchLoop(_, _)
MatchLoop(articles, acc) ==
    IF articles = <<>> THEN acc
    ELSE LET it == Head(articles)
             acc2 == IF it.code # "" /\ ContainsFutures(it.title) THEN Append(acc, it) ELSE acc
         IN IF Len(acc2) >= MaxMatched THEN acc2 ELSE MatchLoop(Tail(articles), acc2)

\* Every row taken as new
NewRowsUnfiltered(code, rs, sn) == rs

\* the rows whose key is not in seen, in the order of rows
RECURSIVE NewRows(_, _, _)
NewRows(code, rs, sn) ==
    IF rs = <<>> THEN <<>>
    ELSE (IF make_key(code, Head(rs).pair, Head(rs).utc) \notin sn THEN <<Head(rs)>> ELSE <<>>)
         \o NewRows(code, Tail(rs), sn)

KeysOf(code, rs) == [p \in DOMAIN rs |-> make_key(code, rs[p].pair, rs[p].utc)]

NotifierErrors == {"unconfigured", "delivery"}

RunInit ==
    /\ file \in InitialFiles
    /\ tmp = MissingFile
    /\ catalog \in Catalogs
    /\ bodies \in [Codes -> Details]
    /\ pc = "idle" /\ seen = {} /\ matched = <<>> /\ idx = 1
    /\ all_new_keys = <<>> /\ push_payloads = <<>> /\ status = "" /\ err = ""
    /\ file0 = file /\ notifyCalls = 0 /\ writes = 0
    /\ delivered = {} /\ prevFailed = {} /\ prevSaved = FALSE

NoExtraction ==
    /\ lines = <<>> /\ lookahead = DefaultLookahead
    /\ emitted = <<>> /\ rows = <<>> /\ xpc = "input"

Init == RunInit /\ NoExtraction

\* What a new process starts from, and what the history keeps of the last one
Begin ==
    /\ pc \in {"idle", "done", "fatal"}
    /\ seen' = load_state(file).seen
    /\ idx' = 1
    /\ all_new_keys' = <<>>
    /\ push_payloads' = <<>>
    /\ status' = ""
    /\ file0' = file
    /\ notifyCalls' = 0
    /\ writes' = 0
    /\ prevFailed' = IF pc = "fatal" /\ err \in NotifierErrors
                     THEN ContentKeys(push_payloads) ELSE {}
    /\ prevSaved' = (pc = "done" /\ writes = 1)
    /\ UNCHANGED <<wvars, delivered, xvars>>

\* main up to the loop over matched: the state is loaded, the catalog fetched
StartRun ==
    /\ Begin
    /\ matched' = MatchLoop(catalog, <<>>)
    /\ pc' = "loop"
    /\ err' = ""

\* fetch_catalog raises
CatalogFails ==
    /\ Begin
    /\ matched' = <<>>
    /\ pc' = "fatal"
    /\ err' = "catalog"

InLoop == pc = "loop" /\ idx <= Len(matched)

\* fetch_detail_data raises for the article at hand
DetailFails ==
    /\ InLoop
    /\ pc' = "fatal"
    /\ err' = "detail"
    /\ UNCHANGED <<seen, matched, idx, all_new_keys, push_payloads, status>>
    /\ UNCHANGED <<wvars, hvars, xvars>>

\* The loop body with seen.add(k) next to all_new_keys.append(k)
ProcessArticleMarksSeen ==
    /\ InLoop
    /\ LET it == matched[idx]
           data == bodies[it.code]
       IN IF data.contentJson = ""
          THEN UNCHANGED <<all_new_keys, push_payloads, seen>>
          ELSE LET res == parse_pair_times_from_lines(
                              extract_lines_from_content_json(data.tree), DefaultLookahead)
                   new_rows == NewRows(it.code, res.rows, seen)
               IN /\ res.ok
                  /\ all_new_keys' = all_new_keys \o KeysOf(it.code, new_rows)
                  /\ seen' = seen \cup Range(KeysOf(it.code, new_rows))
                  /\ push_payloads' =
                        IF new_rows # <<>>
                        THEN Append(push_payloads,
                                    format_message(it.title, build_link(it.code), new_rows))
                        ELSE push_payloads
    /\ idx' = idx + 1
    /\ UNCHANGED <<pc, matched, status, err>>
    /\ UNCHANGED <<wvars, hvars, xvars>>

\* The loop body with break in the place of continue
ProcessArticleBreaksOnNoBody ==
    /\ InLoop
    /\ LET it == matched[idx]
           data == bodies[it.code]
       IN IF data.contentJson = ""
          THEN /\ idx' = Len(matched) + 1
               /\ UNCHANGED <<all_new_keys, push_payloads>>
          ELSE LET res == parse_pair_times_from_lines(
                              extract_lines_from_content_json(data.tree), DefaultLookahead)
                   new_rows == NewRows(it.code, res.rows, seen)
               IN /\ res.ok
                  /\ idx' = idx + 1
                  /\ all_new_keys' = all_new_keys \o KeysOf(it.code, new_rows)
                  /\ push_payloads' =
                        IF new_rows # <<>>
                        THEN Append(push_payloads,
                                    format_message(it.title, build_link(it.code), new_rows))
                        ELSE push_payloads
    /\ UNCHANGED <<pc, seen, matched, status, err>>
    /\ UNCHANGED <<wvars, hvars, xvars>>

\* one pass of the loop body that ends the pass normally
ProcessArticle ==
    /\ InLoop
    /\ LET it == matched[idx]
           data == bodies[it.code]
       IN IF data.contentJson = ""
          THEN UNCHANGED <<all_new_keys, push_payloads>>
          ELSE LET res == parse_pair_times_from_lines(
                              extract_lines_from_content_json(data.tree), DefaultLookahead)
                   new_rows == NewRows(it.code, res.rows, seen)
               IN /\ res.ok
                  /\ all_new_keys' = all_new_keys \o KeysOf(it.code, new_rows)
                  /\ push_payloads' =
                        IF new_rows # <<>>
                        THEN Append(push_payloads,
                                    format_message(it.title, build_link(it.code), new_rows))
                        ELSE push_payloads
    /\ idx' = idx + 1
    /\ UNCHANGED <<pc, seen, matched, status, err>>
    /\ UNCHANGED <<wvars, hvars, xvars>>

\* parse_pair_times_from_lines raises in the loop body
ExtractionFails ==
    /\ InLoop
    /\ LET data == bodies[matched[idx].code]
       IN /\ data.contentJson # ""
          /\ ~parse_pair_times_from_lines(
                  extract_lines_from_content_json(data.tree), DefaultLookahead).ok
    /\ pc' = "fatal"
    /\ err' = "timestamp"
    /\ UNCHANGED <<seen, matched, idx, all_new_keys, push_payloads, status>>
    /\ UNCHANGED <<wvars, hvars, xvars>>

LoopDone == pc = "loop" /\ idx > Len(matched)

\* The same as send_discord_raises, but the keys are recorded all the same
send_discord_raises_after_recording ==
    /\ LoopDone
    /\ push_payloads # <<>>
    /\ \E e \in NotifierErrors : err' = e
    /\ notifyCalls' = notifyCalls + 1
    /\ seen' = seen \cup Range(all_new_keys)
    /\ file' = StateFile(seen')
    /\ pc' = "fatal"
    /\ UNCHANGED <<matched, idx, all_new_keys, push_payloads, status>>
    /\ UNCHANGED <<tmp, catalog, bodies, file0, writes, delivered, prevFailed, prevSaved, xvars>>

\* send_discord raises: no webhook is configured, or the post fails
send_discord_raises ==
    /\ LoopDone
    /\ push_payloads # <<>>
    /\ \E e \in NotifierErrors : err' = e
    /\ notifyCalls' = notifyCalls + 1
    /\ pc' = "fatal"
    /\ UNCHANGED <<seen, matched, idx, all_new_keys, push_payloads, status>>
    /\ UNCHANGED <<wvars, file0, writes, delivered, prevFailed, prevSaved, xvars>>

\* send_discord returns: the content is delivered
send_discord_returns ==
    /\ LoopDone
    /\ push_payloads # <<>>
    /\ notifyCalls' = notifyCalls + 1
    /\ delivered' = delivered \cup ContentKeys(push_payloads)
    /\ pc' = "save"
    /\ UNCHANGED <<seen, matched, idx, all_new_keys, push_payloads, status, err>>
    /\ UNCHANGED <<wvars, file0, writes, prevFailed, prevSaved, xvars>>

\* state["seen"] is set before the new keys are added
RecordAndSaveOldSeen ==
    /\ pc = "save"
    /\ seen' = seen \cup Range(all_new_keys)
    /\ file' = StateFile(seen)
    /\ tmp' = MissingFile
    /\ writes' = writes + 1
    /\ status' = "sent"
    /\ pc' = "done"
    /\ UNCHANGED <<matched, idx, all_new_keys, push_payloads, err>>
    /\ UNCHANGED <<catalog, bodies, file0, notifyCalls, delivered, prevFailed, prevSaved, xvars>>

\* Only the keys of this run are saved
RecordAndSaveNewKeysOnly ==
    /\ pc = "save"
    /\ seen' = seen \cup Range(all_new_keys)
    /\ file' = StateFile(Range(all_new_keys))
    /\ tmp' = MissingFile
    /\ writes' = writes + 1
    /\ status' = "sent"
    /\ pc' = "done"
    /\ UNCHANGED <<matched, idx, all_new_keys, push_payloads, err>>
    /\ UNCHANGED <<catalog, bodies, file0, notifyCalls, delivered, prevFailed, prevSaved, xvars>>

\* The keys are added, the state is saved through the temporary file
RecordAndSave ==
    /\ pc = "save"
    /\ seen' = seen \cup Range(all_new_keys)
    /\ file' = StateFile(seen')
    /\ tmp' = MissingFile
    /\ writes' = writes + 1
    /\ status' = "sent"
    /\ pc' = "done"
    /\ UNCHANGED <<matched, idx, all_new_keys, push_payloads, err>>
    /\ UNCHANGED <<catalog, bodies, file0, notifyCalls, delivered, prevFailed, prevSaved, xvars>>

\* save_state raises: while it writes the temporary file, or in os.replace
SaveFails ==
    /\ pc = "save"
    /\ seen' = seen \cup Range(all_new_keys)
    /\ tmp' \in {PartialFile, StateFile(seen')}
    /\ pc' = "fatal"
    /\ err' = "save"
    /\ UNCHANGED <<matched, idx, all_new_keys, push_payloads, status>>
    /\ UNCHANGED <<file, catalog, bodies, hvars, xvars>>

\* The state is saved in the else branch too
NoUpdatesButSaves ==
    /\ LoopDone
    /\ push_payloads = <<>>
    /\ file' = StateFile(seen)
    /\ writes' = writes + 1
    /\ status' = "no updates"
    /\ pc' = "done"
    /\ UNCHANGED <<seen, matched, idx, all_new_keys, push_payloads, err>>
    /\ UNCHANGED <<tmp, catalog, bodies, file0, notifyCalls, delivered, prevFailed, prevSaved, xvars>>

\* the else branch: nothing to push
NoUpdates ==
    /\ LoopDone
    /\ push_payloads = <<>>
    /\ status' = "no updates"
    /\ pc' = "done"
    /\ UNCHANGED <<seen, matched, idx, all_new_keys, push_payloads, err>>
    /\ UNCHANGED <<wvars, hvars, xvars>>

Next ==
    \/ StartRun
    \/ CatalogFails
    \/ DetailFails
    \/ ProcessArticle
    \/ ExtractionFails
    \/ send_discord_raises
    \/ send_discord_returns
    \/ RecordAndSave
    \/ SaveFails
    \/ NoUpdates

Spec == Init /\ [][Next]_vars

----------------------------------------------------------------------------
(* Properties of the extraction *)

IsMarker(ln) == TIME_LINE_RE_match(ln)

\* The lines of the lookahead window of the marker at line i
Window(i) == {j \in DOMAIN lines : i < j /\ j <= i + lookahead}

\* The window lines that carry a pair token
Hits(i) == {j \in Window(i) : PAIR_RE_findall(lines[j]) # <<>>}

Least(S) == CHOOSE j \in S : \A k \in S : j <= k

EmittedFor(i) == LET ByMarker(e) == e.i = i IN SelectSeq(emitted, ByMarker)

MarkerUtc(i) == utc_str(lines[i][1], lines[i][2])

\* C3: every marker emits one fact per pair token of the first window line
\* that has a pair token, in the order of the tokens, and nothing from any
\* later line; a marker whose window has no pair token emits nothing.
C3_StopAtFirstHit ==
    xpc = "returned" =>
        \A i \in DOMAIN lines :
            IsMarker(lines[i]) =>
                IF Hits(i) = {} THEN EmittedFor(i) = <<>>
                ELSE LET j0 == Least(Hits(i))
                         toks == PAIR_RE_findall(lines[j0])
                         got == EmittedFor(i)
                     IN /\ Len(got) = Len(toks)
                        /\ \A p \in DOMAIN toks :
                              /\ got[p].pair = toks[p]
                              /\ got[p].j = j0
                              /\ got[p].utc = MarkerUtc(i)

\* A marker, a line without pair, a line with two pairs, a later window line
\* with another pair: the facts come from the two-pair line alone.
C3_Witness ==
    /\ xpc = "returned"
    /\ \E i \in DOMAIN lines :
          /\ IsMarker(lines[i])
          /\ Cardinality(Hits(i)) >= 2
          /\ Least(Hits(i)) > i + 1
          /\ Len(PAIR_RE_findall(lines[Least(Hits(i))])) = 2
          /\ Len(EmittedFor(i)) = 2

\* C4: a fact of the marker at line i comes from a line j of the sequence
\* with i < j <= i + lookahead, and carries a pair token of that line.
C4_WindowBoundary ==
    xpc = "returned" =>
        \A p \in DOMAIN emitted :
            LET e == emitted[p]
            IN /\ e.i \in DOMAIN lines
               /\ IsMarker(lines[e.i])
               /\ e.j \in DOMAIN lines
               /\ e.i < e.j
               /\ e.j <= e.i + lookahead
               /\ e.pair \in Range(PAIR_RE_findall(lines[e.j]))

\* lookahead 1, the only pair on the third line after the marker: no fact.
C4_Witness ==
    /\ xpc = "returned"
    /\ lookahead = 1
    /\ \E i \in DOMAIN lines :
          /\ IsMarker(lines[i])
          /\ i + 3 \in DOMAIN lines
          /\ PAIR_RE_findall(lines[i + 3]) # <<>>
          /\ Hits(i) = {}
          /\ EmittedFor(i) = <<>>
    /\ emitted = <<>>

\* The words of a line that are pair tokens when case is ignored
RECURSIVE PairTokensIgnoringCase(_)
PairTokensIgnoringCase(ln) ==
    IF ln = <<>> THEN <<>>
    ELSE LET t == Head(ln)
             rest == PairTokensIgnoringCase(Tail(ln))
         IN IF t.k = "w" /\ PairWordMatches(upper(t.cs)) THEN <<t.cs>> \o rest ELSE rest

HitsIgnoringCase(i) == {j \in Window(i) : PairTokensIgnoringCase(lines[j]) # <<>>}

\* C9: a pair token in any case on the first pair-bearing line of a marker's
\* window is emitted as a fact of that marker with the upper-cased pair.
C9_CaseInsensitiveMatch ==
    xpc = "returned" =>
        \A i \in DOMAIN lines :
            (IsMarker(lines[i]) /\ HitsIgnoringCase(i) # {}) =>
                LET j0 == Least(HitsIgnoringCase(i))
                    toks == PairTokensIgnoringCase(lines[j0])
                IN \A p \in DOMAIN toks :
                      \E q \in DOMAIN emitted :
                          /\ emitted[q].i = i
                          /\ emitted[q].j = j0
                          /\ emitted[q].pair = upper(toks[p])

RowKeys(rs) == {<<rs[p].pair, rs[p].utc>> : p \in DOMAIN rs}

\* C10: the returned rows have pairwise different (pair, utc), and their
\* (pair, utc) are exactly those of the facts the markers emitted.
C10_DedupByPairUtc ==
    xpc = "returned" =>
        /\ \A p, q \in DOMAIN rows :
              (rows[p].pair = rows[q].pair /\ rows[p].utc = rows[q].utc) => p = q
        /\ RowKeys(rows) = RowKeys(emitted)

\* Two markers with the same time bound to the same pair: one row.
C10_Witness ==
    /\ xpc = "returned"
    /\ \E p, q \in DOMAIN emitted :
          /\ emitted[p].i # emitted[q].i
          /\ emitted[p].pair = emitted[q].pair
          /\ emitted[p].utc = emitted[q].utc
    /\ Len(rows) < Len(emitted)

----------------------------------------------------------------------------
(* Properties of the runs *)

\* the seen set a run would load from the state file
Persisted(f) == load_state(f).seen

\* C1: when send_discord raises, the run is over with the seen set as it was
\* loaded and the state file as the run found it.
C1_NotifierFailureLeavesState ==
    (err \in NotifierErrors /\ notifyCalls = 1) =>
        /\ pc = "fatal"
        /\ seen = Persisted(file0)
        /\ file = file0
        /\ writes = 0

\* No webhook, a state file with keys, a new fact: the run dies in send_discord.
C1_Witness ==
    /\ pc = "fatal"
    /\ err = "unconfigured"
    /\ all_new_keys # <<>>
    /\ file0 = StateFile({K_Old, K_aBtc})

\* C2: the run after a failed notification, once its loop over the same
\* catalog and bodies is through, has every fact of the failed notification in
\* its own; and a key in the state file was there when the run began or
\* belongs to a delivered fact.
C2_AtLeastOnce ==
    /\ (LoopDone \/ notifyCalls = 1) => prevFailed \subseteq ContentKeys(push_payloads)
    /\ Persisted(file) \subseteq Persisted(file0) \cup delivered

\* A failed notification, then a run that delivers the same facts and saves.
C2_Witness ==
    /\ prevFailed # {}
    /\ pc = "done"
    /\ writes = 1
    /\ prevFailed \subseteq delivered
    /\ prevFailed \subseteq Persisted(file)

\* C5: whatever the run has done so far, the persisted seen set holds every
\* key it held when the run began.
C5_SeenOnlyGrows == Persisted(file0) \subseteq Persisted(file)

\* A run that replaced a state file which had keys.
C5_Witness ==
    /\ pc = "done"
    /\ writes = 1
    /\ Persisted(file0) # {}
    /\ Persisted(file) # Persisted(file0)

\* C6: a run without a new fact calls no notifier and leaves the state file
\* alone, and when it completes it has printed "no updates".
C6_NothingNewNothingDone ==
    all_new_keys = <<>> =>
        /\ notifyCalls = 0
        /\ writes = 0
        /\ file = file0
        /\ pc = "done" => status = "no updates"

\* A catalog with articles, none of them matched.
C6_Witness ==
    /\ pc = "done"
    /\ catalog # <<>>
    /\ matched = <<>>
    /\ status = "no updates"
    /\ file0 = CorruptFile

\* the keys of the facts in the bodies of the articles processed so far
ProcessedKeys ==
    UNION {LET it == matched[p]
               data == bodies[it.code]
           IN IF data.contentJson = "" THEN {}
              ELSE Range(KeysOf(it.code,
                           parse_pair_times_from_lines(
                               extract_lines_from_content_json(data.tree),
                               DefaultLookahead).rows))
           : p \in 1..(idx - 1)}

\* C7: the new keys of a run are the keys of its facts that are not in the
\* seen set, and the run after one that delivered and saved finds nothing new,
\* notifies nothing and writes nothing.
C7_NoveltyIdempotent ==
    /\ pc = "loop" => Range(all_new_keys) = ProcessedKeys \ seen
    /\ prevSaved =>
          /\ all_new_keys = <<>>
          /\ push_payloads = <<>>
          /\ notifyCalls = 0
          /\ writes = 0
          /\ file = file0

\* The run after a saved one went through bodies with facts: no updates.
C7_Witness ==
    /\ prevSaved
    /\ pc = "done"
    /\ status = "no updates"
    /\ ProcessedKeys # {}
    /\ ProcessedKeys \subseteq seen

\* C8: a failing detail fetch does not end the run.
C8_DetailFailureSkipsArticle == err = "detail" => pc # "fatal"

----------------------------------------------------------------------------
(* Properties of the batch *)

HasBody(it) == bodies[it.code].contentJson # ""

\* the rows of the body of an article that has one
RowsOfArticle(it) ==
    parse_pair_times_from_lines(
        extract_lines_from_content_json(bodies[it.code].tree), DefaultLookahead).rows

NewRowsOfArticle(it) == NewRows(it.code, RowsOfArticle(it), Persisted(file0))

\* what a list of articles with bodies adds to all_new_keys
RECURSIVE KeysOfBatch(_)
KeysOfBatch(arts) ==
    IF arts = <<>> THEN <<>>
    ELSE KeysOf(Head(arts).code, NewRowsOfArticle(Head(arts))) \o KeysOfBatch(Tail(arts))

\* what a list of articles with bodies adds to push_payloads
RECURSIVE MessagesOfBatch(_)
MessagesOfBatch(arts) ==
    IF arts = <<>> THEN <<>>
    ELSE LET it == Head(arts)
         IN (IF NewRowsOfArticle(it) # <<>>
             THEN <<format_message(it.title, build_link(it.code), NewRowsOfArticle(it))>>
             ELSE <<>>) \o MessagesOfBatch(Tail(arts))

\* the articles the loop has been through
Processed == SubSeq(matched, 1, idx - 1)

\* C11: while the loop runs, the keys and the messages collected are those of
\* the processed articles with the bodiless ones left out of the batch, and
\* no run dies in the extraction of an article without a body.
C11_MissingBodySkipped ==
    /\ pc = "loop" =>
          /\ all_new_keys = KeysOfBatch(SelectSeq(Processed, HasBody))
          /\ push_payloads = MessagesOfBatch(SelectSeq(Processed, HasBody))
    /\ (pc = "fatal" /\ err = "timestamp") => HasBody(matched[idx])

\* A bodiless article first, then one with new facts: one message, for the second.
C11_Witness ==
    /\ LoopDone
    /\ Len(matched) = 2
    /\ ~HasBody(matched[1])
    /\ HasBody(matched[2])
    /\ Len(push_payloads) = 1
    /\ push_payloads[1].link.code = matched[2].code
    /\ all_new_keys # <<>>

\* C13: a run calls the notifier at most once and writes the state at most
\* once; the call comes after the loop and carries the messages of all the
\* articles with new facts in batch order; seen is as loaded while the loop
\* runs; the state file changes only in the one write, which comes after the
\* notifier has returned.
C13_OneCallThenOneWrite ==
    /\ notifyCalls <= 1
    /\ writes <= 1
    /\ notifyCalls = 1 =>
          /\ idx > Len(matched)
          /\ push_payloads # <<>>
          /\ push_payloads = MessagesOfBatch(SelectSeq(matched, HasBody))
    /\ pc = "loop" => seen = Persisted(file0)
    /\ file # file0 => writes = 1
    /\ writes = 1 =>
          /\ notifyCalls = 1
          /\ err \notin NotifierErrors
          /\ ContentKeys(push_payloads) \subseteq delivered

\* Two articles with new facts: one call with both messages, then one write.
C13_Witness ==
    /\ pc = "done"
    /\ notifyCalls = 1
    /\ writes = 1
    /\ Len(push_payloads) = 2
    /\ push_payloads[1].link.code = matched[1].code
    /\ push_payloads[2].link.code = matched[2].code
    /\ matched[1].code # matched[2].code

\* C14: a step that adds keys to the persisted seen set adds keys of delivered
\* facts only, and when a run that notified is done, the keys of all the
\* facts of its notification are persisted.
C14_NotifiedIsRecorded ==
    /\ [][Persisted(file') \ Persisted(file) \subseteq delivered']_vars
    /\ []((pc = "done" /\ notifyCalls = 1) =>
             ContentKeys(push_payloads) \subseteq Persisted(file))

\* A run over a state file with keys that delivered two facts and is done.
C14_Witness ==
    /\ pc = "done"
    /\ notifyCalls = 1
    /\ Persisted(file0) # {}
    /\ Cardinality(ContentKeys(push_payloads)) >= 2
    /\ ContentKeys(push_payloads) \subseteq Persisted(file) \cap delivered

RECURSIVE CountLines(_)
CountLines(content) ==
    IF content = <<>> THEN 0 ELSE Len(Head(content).rows) + CountLines(Tail(content))

\* C20: within a run all_new_keys holds no key twice, and the payload has at
\* most one line for a key.
C20_NoDuplicateDelivery ==
    /\ \A p, q \in DOMAIN all_new_keys : all_new_keys[p] = all_new_keys[q] => p = q
    /\ CountLines(push_payloads) = Cardinality(ContentKeys(push_payloads))

----------------------------------------------------------------------------
(* Runs over longer feeds: the catalog holds up to MaxFeed articles, so that
   the cap on matched is reached and passed. *)

MaxFeed == 5

Feeds == UNION {[1..n -> ArticleKinds] : n \in 0..MaxFeed}

\* no article of the feed has a body: of main only the loading, the matching,
\* the detail requests and the final "no updates" can happen
MatchInit ==
    /\ file = MissingFile
    /\ tmp = MissingFile
    /\ catalog \in Feeds
    /\ bodies = [c \in Codes |-> NoBody]
    /\ pc = "idle" /\ seen = {} /\ matched = <<>> /\ idx = 1
    /\ all_new_keys = <<>> /\ push_payloads = <<>> /\ status = "" /\ err = ""
    /\ file0 = file /\ notifyCalls = 0 /\ writes = 0
    /\ delivered = {} /\ prevFailed = {} /\ prevSaved = FALSE
    /\ NoExtraction

MatchNext ==
    \/ StartRun
    \/ CatalogFails
    \/ DetailFails
    \/ ProcessArticle
    \/ NoUpdates

SpecMatch == MatchInit /\ [][MatchNext]_vars

Matching == {p \in DOMAIN catalog :
                catalog[p].code # "" /\ ContainsFutures(catalog[p].title)}

\* the matching positions with fewer than three matching positions before them
Kept == {p \in Matching : Cardinality({q \in Matching : q < p}) < 3}

KeptNth(n) == CHOOSE p \in Kept : Cardinality({q \in Kept : q < p}) = n - 1

\* the positions of the catalog whose detail the run has asked for so far
FetchedPositions ==
    {KeptNth(n) : n \in {m \in 1..Len(matched) :
                            m < idx \/ (m = idx /\ err \in {"detail", "timestamp"})}}

\* C12: the batch is the first min(3, k) matching articles of the feed in feed
\* order, k the number of matching articles; the articles whose detail is
\* fetched are articles of the batch taken in that order, so no article past
\* the third matching one and no non-matching article is ever fetched.
C12_FirstThreeMatching ==
    (pc # "idle" /\ err # "catalog") =>
        /\ Len(matched) = Cardinality(Kept)
        /\ Len(matched) = IF Cardinality(Matching) < 3 THEN Cardinality(Matching) ELSE 3
        /\ \A n \in DOMAIN matched : matched[n] = catalog[KeptNth(n)]
        /\ idx <= Len(matched) + 1
        /\ FetchedPositions \subseteq Kept
        /\ \A p \in FetchedPositions : \A q \in Kept : q < p => q \in FetchedPositions

\* Four matching articles with a non-matching one among the first three: the
\* three kept ones are all processed, the fourth matching one is left out.
C12_Witness ==
    /\ pc = "done"
    /\ Cardinality(Matching) >= 4
    /\ \E p \in DOMAIN catalog : p \notin Matching /\ \E q \in Kept : p < q
    /\ Len(matched) = 3
    /\ idx = 4
    /\ FetchedPositions = Kept
    /\ Matching \ Kept # {}

----------------------------------------------------------------------------
(* The save, step by step.  A run has reached the end of main with new keys:
   seen.add, then save_state opens the temporary file, dumps the state into
   it, and replaces the state file by it.  Each step of save_state may raise,
   and the process may be killed between any two steps; a later process then
   loads the state file. *)

MaxNewKeys == 2

K_bAda == make_key("b", W_ADAUSDT, utc_str(DateTok(2024, 12, 31), TimeTok(16, 30)))

NewKeySeqs == UNION {[1..n -> {K_aBtc, K_bAda}] : n \in 1..MaxNewKeys}

SaveInit ==
    /\ file \in InitialFiles
    /\ tmp \in {MissingFile, PartialFile, StateFile({K_Old})}
    /\ catalog = <<>> /\ bodies = <<>>
    /\ pc = "save" /\ seen = load_state(file).seen /\ matched = <<>> /\ idx = 1
    /\ all_new_keys \in NewKeySeqs
    /\ push_payloads = <<>> /\ status = "" /\ err = ""
    /\ file0 = file /\ notifyCalls = 1 /\ writes = 0
    /\ delivered = Range(all_new_keys) /\ prevFailed = {} /\ prevSaved = FALSE
    /\ NoExtraction

SaveFrame ==
    UNCHANGED <<catalog, bodies, matched, idx, all_new_keys, push_payloads,
                file0, notifyCalls, delivered, prevFailed, prevSaved, xvars>>

\* for k in all_new_keys: seen.add(k)
AddKeys ==
    /\ pc = "save"
    /\ seen' = seen \cup Range(all_new_keys)
    /\ pc' = "open"
    /\ UNCHANGED <<file, tmp, status, err, writes>>
    /\ SaveFrame

\* The state path itself opened for writing
OpenStatePath ==
    /\ pc = "open"
    /\ file' = PartialFile
    /\ pc' = "dump"
    /\ UNCHANGED <<tmp, seen, status, err, writes>>
    /\ SaveFrame

\* open(tmp, "w"): the temporary file is created or truncated
OpenTmp ==
    /\ pc = "open"
    /\ tmp' = PartialFile
    /\ pc' = "dump"
    /\ UNCHANGED <<file, seen, status, err, writes>>
    /\ SaveFrame

\* json.dump and the close of the with block
Dump ==
    /\ pc = "dump"
    /\ tmp' = StateFile(seen)
    /\ pc' = "replace"
    /\ UNCHANGED <<file, seen, status, err, writes>>
    /\ SaveFrame

\* os.replace(tmp, path)
Replace ==
    /\ pc = "replace"
    /\ file' = tmp
    /\ tmp' = MissingFile
    /\ writes' = writes + 1
    /\ status' = "sent"
    /\ pc' = "done"
    /\ UNCHANGED <<seen, err>>
    /\ SaveFrame

\* a step of save_state raises, or the process is killed where it stands
Interrupted ==
    /\ pc \in {"open", "dump", "replace"}
    /\ pc' = "fatal"
    /\ err' = "save"
    /\ UNCHANGED <<file, tmp, seen, status, writes>>
    /\ SaveFrame

\* the next process: load_state
Load ==
    /\ pc \in {"done", "fatal"}
    /\ seen' = load_state(file).seen
    /\ pc' = "loaded"
    /\ UNCHANGED <<file, tmp, status, err, writes>>
    /\ SaveFrame

SaveNext ==
    \/ AddKeys
    \/ OpenTmp
    \/ Dump
    \/ Replace
    \/ Interrupted
    \/ Load

SpecSave == SaveInit /\ [][SaveNext]_vars

NewState == StateFile(Persisted(file0) \cup Range(all_new_keys))

\* C16: at every point of a save, an interrupted one included, the state file
\* holds the complete previous state or the complete new state, never a
\* partial one, and a later load returns the previous or the new seen set.
C16_AtomicSave ==
    /\ file \in {file0, NewState}
    /\ file.kind # "partial"
    /\ pc = "loaded" => seen \in {Persisted(file0), NewState.seen}

\* A save interrupted after the temporary file was opened, then a load.
C16_Witness ==
    /\ pc = "loaded"
    /\ err = "save"
    /\ tmp = PartialFile
    /\ file = file0
    /\ Persisted(file0) # {}
    /\ seen = Persisted(file0)
    /\ NewState.seen # seen
----------------------------------------------------------------------------
(* The extraction on one marker line followed by one line with a pair, the
   stamp of the marker ranging over values the pattern admits: ends of
   months and years, leap and common Februaries, and values that are not
   calendar values. *)

StampYears == {2000, 2023, 2024, 2099}
StampMonths == 0..13
StampDays == {0, 1, 15, 27, 28, 29, 30, 31, 32}
StampHours == {0, 7, 15, 16, 23, 24, 25}
StampMinutes == {0, 59, 60}

TimeInit ==
    /\ \E y \in StampYears, m \in StampMonths, d \in StampDays,
          h \in StampHours, mi \in StampMinutes :
            lines = <<MarkerLine(y, m, d, h, mi), L_Ada>>
    /\ lookahead = DefaultLookahead
    /\ emitted = <<>>
    /\ rows = <<>>
    /\ xpc = "input"
    /\ NoRun

SpecTime == TimeInit /\ [][ExtractNext]_vars

\* days from 0000-03-01 to the date, by the count of whole years and of the
\* months from March on
DayNumber(t) ==
    LET yy == IF t.m <= 2 THEN t.y - 1 ELSE t.y
        mm == IF t.m > 2 THEN t.m - 3 ELSE t.m + 9
    IN 365 * yy + yy \div 4 - yy \div 100 + yy \div 400
       + (153 * mm + 2) \div 5 + t.d - 1

MinuteNumber(t) == (DayNumber(t) * 24 + t.h) * 60 + t.mi

\* the day after t is not past the first day of the next month
IsCalendarValue(t) ==
    /\ t.m \in 1..12
    /\ t.d >= 1
    /\ DayNumber(t) + 1 <= DayNumber([y |-> IF t.m = 12 THEN t.y + 1 ELSE t.y,
                                      m |-> IF t.m = 12 THEN 1 ELSE t.m + 1,
                                      d |-> 1,
                                      h |-> t.h,
                                      mi |-> t.mi])
    /\ t.h \in 0..23
    /\ t.mi \in 0..59

StampOf(ln) == [y |-> ln[1].y, m |-> ln[1].m, d |-> ln[1].d, h |-> ln[2].h, mi |-> ln[2].mi]

\* C19: for a marker with a calendar-valid stamp the facts carry the stamp
\* unchanged as utc, and as local time the instant 8 hours later: the same
\* minute, the hour (h + 8) mod 24, a calendar date that is the next day when
\* h >= 16 and the same day otherwise, whatever the date.
C19_TaipeiIsUtcPlusEight ==
    \A i \in DOMAIN lines :
        (IsMarker(lines[i]) /\ IsCalendarValue(StampOf(lines[i]))) =>
            /\ xpc # "raised"
            /\ xpc = "returned" =>
                  /\ \E p \in DOMAIN rows : rows[p].utc = StampOf(lines[i])
                  /\ \A p \in DOMAIN rows :
                        LET u == rows[p].utc
                            t == rows[p].taipei
                        IN /\ u = StampOf(lines[i])
                           /\ IsCalendarValue(t)
                           /\ t.mi = u.mi
                           /\ t.h = (u.h + 8) % 24
                           /\ DayNumber(t) - DayNumber(u) = (IF u.h >= 16 THEN 1 ELSE 0)
                           /\ MinuteNumber(t) - MinuteNumber(u) = 8 * 60

\* The last minute of a year: the local time is in the next year.
C19_Witness ==
    /\ xpc = "returned"
    /\ Len(rows) = 1
    /\ rows[1].utc = [y |-> 2024, m |-> 12, d |-> 31, h |-> 23, mi |-> 59]
    /\ rows[1].taipei = [y |-> 2025, m |-> 1, d |-> 1, h |-> 7, mi |-> 59]

----------------------------------------------------------------------------
(* Runs over two articles, the first with a body of two facts, the second
   with a marker whose stamp ranges over calendar values and over values
   that only the pattern admits; and the same with the two in the other
   order. *)

Stamps ==
    {MarkerLine(2024, 3, 1, 8, 0), MarkerLine(2024, 2, 29, 23, 59),
     MarkerLine(2024, 13, 1, 8, 0), MarkerLine(2024, 0, 10, 8, 0),
     MarkerLine(2024, 2, 30, 8, 0), MarkerLine(2023, 2, 29, 8, 0),
     MarkerLine(2024, 4, 31, 8, 0), MarkerLine(2024, 1, 0, 8, 0),
     MarkerLine(2024, 3, 1, 25, 0), MarkerLine(2024, 3, 1, 24, 0),
     MarkerLine(2024, 3, 1, 8, 60)}

\* the stamped marker with a pair line after it, or with nothing after it
StampedDetails ==
    {Detail(Doc(L_Intro, <<st, L_Ada>>)) : st \in Stamps}
        \cup {Detail(Doc(L_Intro, <<L_T2, L_Ada, st>>)) : st \in Stamps}

StampInit ==
    /\ file \in {MissingFile, StateFile({K_Old, K_aBtc})}
    /\ tmp = MissingFile
    /\ catalog \in {<<Article("a", T_Futures), Article("b", T_Futures)>>,
                    <<Article("b", T_Futures), Article("a", T_Futures)>>}
    /\ \E sd \in StampedDetails : bodies = [c \in Codes |-> IF c = "a" THEN D_Two ELSE sd]
    /\ pc = "idle" /\ seen = {} /\ matched = <<>> /\ idx = 1
    /\ all_new_keys = <<>> /\ push_payloads = <<>> /\ status = "" /\ err = ""
    /\ file0 = file /\ notifyCalls = 0 /\ writes = 0
    /\ delivered = {} /\ prevFailed = {} /\ prevSaved = FALSE
    /\ NoExtraction

SpecStamp == StampInit /\ [][Next]_vars

LinesOfArticle(it) == extract_lines_from_content_json(bodies[it.code].tree)

HasInvalidMarker(it) ==
    /\ HasBody(it)
    /\ \E p \in DOMAIN LinesOfArticle(it) :
          /\ IsMarker(LinesOfArticle(it)[p])
          /\ ~IsCalendarValue(StampOf(LinesOfArticle(it)[p]))

\* C18: an article whose text holds a marker line with a stamp that is not a
\* calendar value is never processed to its end: the run stops at it with an
\* error, what was gathered holds nothing of it, and a run whose batch holds
\* such an article sends nothing, writes nothing and adds nothing to seen.
C18_InvalidStampFailsRun ==
    /\ \A n \in DOMAIN matched : HasInvalidMarker(matched[n]) => idx <= n
    /\ (\E n \in DOMAIN matched : HasInvalidMarker(matched[n])) =>
          /\ pc \in {"loop", "fatal"}
          /\ notifyCalls = 0
          /\ writes = 0
          /\ file = file0
          /\ seen = Persisted(file0)
    /\ (pc = "fatal" /\ err = "timestamp") =>
          /\ HasInvalidMarker(matched[idx])
          /\ all_new_keys = KeysOfBatch(SelectSeq(Processed, HasBody))
          /\ push_payloads = MessagesOfBatch(SelectSeq(Processed, HasBody))
          /\ \A p \in DOMAIN all_new_keys : all_new_keys[p][1] # matched[idx].code

\* The second article has a marker of month 13 with nothing after it; the
\* facts of the first one were gathered and are not sent.
C18_Witness ==
    /\ pc = "fatal"
    /\ err = "timestamp"
    /\ idx = 2
    /\ all_new_keys # <<>>
    /\ notifyCalls = 0
    /\ \E p \in DOMAIN LinesOfArticle(matched[2]) :
          /\ p = Len(LinesOfArticle(matched[2]))
          /\ IsMarker(LinesOfArticle(matched[2])[p])
          /\ StampOf(LinesOfArticle(matched[2])[p]).m = 13

----------------------------------------------------------------------------
(* The flattening of a body, then the extraction from its lines.  The trees
   are dictionaries with a "content" and a "children" entry in either order,
   alone or inside a list; the content is a string, a string of white space,
   a number, a dictionary or missing; the children are strings, numbers and
   dictionaries with and without string content. *)

MaxWidth == 2

ChildNodes ==
    {JDict(<<Entry("content", JStr(Raw(L_Ada)))>>),
     JDict(<<Entry("content", JStr(Raw(L_BtcEth)))>>),
     JDict(<<Entry("content", JStr(<<WS>>))>>),
     JDict(<<Entry("content", JNum)>>),
     JDict(<<Entry("text", JStr(Raw(L_Intro)))>>),
     JStr(Raw(L_Ada)),
     JNum}

ChildLists == UNION {[1..n -> ChildNodes] : n \in 0..MaxWidth}

TopContents ==
    {JStr(Raw(L_T1)), JStr(Raw(L_TBad)), JNum,
     JDict(<<Entry("content", JStr(Raw(L_Intro)))>>)}

TopDicts ==
    {JDict(<<Entry("content", c), Entry("children", JList(ch))>>) :
        c \in TopContents, ch \in ChildLists}
    \cup {JDict(<<Entry("children", JList(ch)), Entry("content", c)>>) :
        c \in TopContents, ch \in ChildLists}
    \cup {JDict(<<Entry("children", JList(ch))>>) : ch \in ChildLists}

Trees == TopDicts \cup {JList(<<JNull, d>>) : d \in TopDicts}

FlattenInit ==
    /\ file = MissingFile /\ tmp = MissingFile /\ catalog = <<>>
    /\ \E t \in Trees : bodies = [c \in Codes |-> Detail(t)]
    /\ pc = "idle" /\ seen = {} /\ matched = <<>> /\ idx = 1
    /\ all_new_keys = <<>> /\ push_payloads = <<>> /\ status = "" /\ err = ""
    /\ file0 = MissingFile /\ notifyCalls = 0 /\ writes = 0
    /\ delivered = {} /\ prevFailed = {} /\ prevSaved = FALSE
    /\ lines = <<>> /\ lookahead = DefaultLookahead
    /\ emitted = <<>> /\ rows = <<>> /\ xpc = "tree"

\* lines = extract_lines_from_content_json(cj)
Flatten ==
    /\ xpc = "tree"
    /\ lines' = extract_lines_from_content_json(bodies["a"].tree)
    /\ xpc' = "input"
    /\ UNCHANGED <<lookahead, emitted, rows, rvars>>

FlattenNext == Flatten \/ ExtractReturns \/ ExtractRaises

SpecFlatten == FlattenInit /\ [][FlattenNext]_vars

IsContainer(node) == node.t \in {"dict", "list"}

ChildAt(node, i) == IF node.t = "dict" THEN node.items[i].val ELSE node.items[i]

\* the paths from a node to the nodes below it, the node itself at <<>>
RECURSIVE PathsOf(_)
PathsOf(node) ==
    IF IsContainer(node)
    THEN {<<>>} \cup UNION {{<<i>> \o q : q \in PathsOf(ChildAt(node, i))} :
                                i \in DOMAIN node.items}
    ELSE {<<>>}

RECURSIVE NodeAt(_, _)
NodeAt(node, path) ==
    IF path = <<>> THEN node ELSE NodeAt(ChildAt(node, Head(path)), Tail(path))

\* a dictionary whose "content" entry is a string
Emits(node) ==
    /\ node.t = "dict"
    /\ \E i \in DOMAIN node.items :
          node.items[i].key = "content" /\ node.items[i].val.t = "str"

TextOf(node) ==
    LET i == CHOOSE k \in DOMAIN node.items : node.items[k].key = "content"
    IN node.items[i].val.s

\* depth first: a node before what is below it, an earlier entry or element
\* and all below it before a later one
Before(a, b) ==
    \/ Len(a) < Len(b) /\ SubSeq(b, 1, Len(a)) = a
    \/ \E k \in 1..Len(a) :
          /\ k <= Len(b)
          /\ SubSeq(a, 1, k - 1) = SubSeq(b, 1, k - 1)
          /\ a[k] < b[k]

EmittingPaths(tree) == {q \in PathsOf(tree) : Emits(NodeAt(tree, q))}

NthEmitting(tree, n) ==
    CHOOSE q \in EmittingPaths(tree) :
        Cardinality({r \in EmittingPaths(tree) : Before(r, q)}) = n - 1

ExpectedParts(tree) ==
    [n \in 1..Cardinality(EmittingPaths(tree)) |-> TextOf(NodeAt(tree, NthEmitting(tree, n)))]

NotBlank(ln) == ln # <<>>

ExpectedLines(tree) ==
    SelectSeq([n \in DOMAIN ExpectedParts(tree) |-> Normalise(ExpectedParts(tree)[n])],
              NotBlank)

\* C15: the lines of a tree are the string contents of its dictionaries in
\* depth-first order, a dictionary's own content before whatever is reached
\* through its values, the values in insertion order and list elements in
\* list order; strings outside a "content" entry, numbers, nulls and a
\* content that is not a string add nothing of their own.
C15_FlatteningOrder ==
    xpc # "tree" => lines = ExpectedLines(bodies["a"].tree)

\* {content: A, children: [{content: B}, {content: C}]} gives A, B, C.
C15_Witness ==
    /\ xpc # "tree"
    /\ bodies["a"].tree =
          JDict(<<Entry("content", JStr(Raw(L_T1))),
                  Entry("children",
                        JList(<<JDict(<<Entry("content", JStr(Raw(L_Ada)))>>),
                                JDict(<<Entry("content", JStr(Raw(L_BtcEth)))>>)>>))>>)
    /\ lines = <<L_T1, L_Ada, L_BtcEth>>

----------------------------------------------------------------------------
(* More properties of the extraction *)

EmitsFrom(i, j) ==
    \A p \in DOMAIN PAIR_RE_findall(lines[j]) :
        \E q \in DOMAIN emitted :
            /\ emitted[q].i = i
            /\ emitted[q].j = j
            /\ emitted[q].pair = PAIR_RE_findall(lines[j])[p]
            /\ emitted[q].utc = MarkerUtc(i)

\* C17: a marker line inside the window of an earlier marker is a marker of
\* its own and does not end the earlier window: when the first pair-bearing
\* line after both lies in both windows, each of the two markers emits the
\* pairs of that line at its own time, and the rows hold them at both times.
C17_NestedMarkers ==
    xpc = "returned" =>
        \A i, k \in DOMAIN lines :
            (IsMarker(lines[i]) /\ IsMarker(lines[k]) /\ k \in Window(i)) =>
                \A j \in Window(i) \cap Window(k) :
                    (j \in Hits(i) /\ j = Least(Hits(i))) =>
                        /\ EmitsFrom(i, j)
                        /\ EmitsFrom(k, j)
                        /\ \A p \in DOMAIN PAIR_RE_findall(lines[j]) :
                              {<<PAIR_RE_findall(lines[j])[p], MarkerUtc(i)>>,
                               <<PAIR_RE_findall(lines[j])[p], MarkerUtc(k)>>}
                                  \subseteq RowKeys(rows)

\* Two markers with different times, then one line with pairs.
C17_Witness ==
    /\ xpc = "returned"
    /\ Len(lines) >= 3
    /\ IsMarker(lines[1]) /\ IsMarker(lines[2])
    /\ MarkerUtc(1) # MarkerUtc(2)
    /\ 3 \in Hits(1) \cap Hits(2)
    /\ \E p, q \in DOMAIN rows :
          /\ rows[p].pair = rows[q].pair
          /\ rows[p].utc = MarkerUtc(1)
          /\ rows[q].utc = MarkerUtc(2)

====
